---------------------------- MODULE Spec2Model ----------------------------
(***************************************************************************)
(* Model of src/prototype_cv.py: the tiered pricing function               *)
(* calculate_price_options, the page analyser perform_technical_analysis   *)
(* and the pipeline process_document.                                      *)
(*                                                                         *)
(* Coverage values are Python floats in the code.  They are modelled as    *)
(* exact rationals [num, den] (den > 0) standing for num/den percent, so   *)
(* that every comparison against 0, 25, 50 and 75 is decided exactly.      *)
(* Prices are Python floats with two decimals (1.00, 2.00, ...); they are  *)
(* modelled in hundredths of a unit, and int() is modelled as truncation.  *)
(***************************************************************************)
EXTENDS Integers, Sequences, FiniteSets, TLC

\* ------------------------------------------------------------------ bounds
\* Largest denominator of the coverage values fed to the pricing function.
MaxDen == 2
\* How far below 0 and above 100 (in 1/den percent) the pricing inputs go.
CovSlack == 3
\* Largest number of pixels of an analysed image.
MaxPixels == 2
\* Largest number of pages of a document.
MaxPages == 2

\* ------------------------------------------------------- program constants
\* PAPER_PRICE = 1.00, in hundredths.
PAPER_PRICE == 100
\* cv2.threshold(gray_image, 240, 255, cv2.THRESH_BINARY_INV)
THRESH == 240
MAXVAL == 255

None == <<>>

VARIABLES
    pc,                 \* position of the running function
    coverage,           \* coverage value handed to calculate_price_options
    pricing,            \* last result of calculate_price_options
    price_calls,        \* every call of calculate_price_options: argument, result
    pix,                \* pixmap rendered for the current page
    open_cv_image,      \* image handed to perform_technical_analysis
    tech_results,       \* last result of perform_technical_analysis
    total_pages,        \* len(pdf_document)
    page_num,           \* loop index, 0-based
    grand_total_bw,
    grand_total_color,
    output,             \* what was printed, in order
    ret                 \* what process_document returned (None: nothing)

vars == <<pc, coverage, pricing, price_calls, pix, open_cv_image, tech_results,
          total_pages, page_num, grand_total_bw, grand_total_color, output, ret>>

\* ===================================================== calculate_price_options

\* Python's int() on a float held in hundredths: truncation toward zero.
PyInt(x) == IF x >= 0 THEN x \div 100 ELSE -((-x) \div 100)

\* Variant of TierOf whose first branch lacks the test 0 <= coverage.
TierOfNoLowerBound(c) ==
    IF c.num <= 25 * c.den THEN 1
    ELSE IF 25 * c.den < c.num /\ c.num <= 50 * c.den THEN 2
    ELSE IF 50 * c.den < c.num /\ c.num <= 75 * c.den THEN 3
    ELSE IF c.num > 75 * c.den THEN 4
    ELSE 0

\* Variant of TierOf in which a boundary belongs to the upper tier.
TierOfStrictUpper(c) ==
    IF 0 <= c.num /\ c.num < 25 * c.den THEN 1
    ELSE IF 25 * c.den <= c.num /\ c.num < 50 * c.den THEN 2
    ELSE IF 50 * c.den <= c.num /\ c.num < 75 * c.den THEN 3
    ELSE IF c.num >= 75 * c.den THEN 4
    ELSE 0

\* The if / elif chain of lines 27-48: the tier a coverage value falls in,
\* 0 when no branch is taken.
TierOf(c) ==
    IF 0 <= c.num /\ c.num <= 25 * c.den THEN 1
    ELSE IF 25 * c.den < c.num /\ c.num <= 50 * c.den THEN 2
    ELSE IF 50 * c.den < c.num /\ c.num <= 75 * c.den THEN 3
    ELSE IF c.num > 75 * c.den THEN 4
    ELSE 0

\* The assignments of each branch (and the defaults of lines 20-22).
TierName(t) ==
    CASE t = 1 -> "Tier 1: Light (0-25%)"
      [] t = 2 -> "Tier 2: Medium (26-50%)"
      [] t = 3 -> "Tier 3: Heavy (51-75%)"
      [] t = 4 -> "Tier 4: Dense/Full (76-100%)"
      [] OTHER -> "N/A"

BwInkPrice(t) ==
    CASE t = 1 -> 100 [] t = 2 -> 200 [] t = 3 -> 300 [] t = 4 -> 400 [] OTHER -> 0

ColorInkPrice(t) ==
    CASE t = 1 -> 200 [] t = 2 -> 400 [] t = 3 -> 600 [] t = 4 -> 900 [] OTHER -> 0

\* Variant of PriceResult whose finals leave the paper price out.
PriceResultInkOnly(t) ==
    [ paper_price       |-> PyInt(PAPER_PRICE),
      tier_name         |-> TierName(t),
      bw_ink_price      |-> PyInt(BwInkPrice(t)),
      color_ink_price   |-> PyInt(ColorInkPrice(t)),
      final_bw_price    |-> PyInt(BwInkPrice(t)),
      final_color_price |-> PyInt(ColorInkPrice(t)) ]

\* Lines 50-61: the finals and the returned dictionary.
PriceResult(t) ==
    [ paper_price       |-> PyInt(PAPER_PRICE),
      tier_name         |-> TierName(t),
      bw_ink_price      |-> PyInt(BwInkPrice(t)),
      color_ink_price   |-> PyInt(ColorInkPrice(t)),
      final_bw_price    |-> PyInt(PAPER_PRICE + BwInkPrice(t)),
      final_color_price |-> PyInt(PAPER_PRICE + ColorInkPrice(t)) ]

calculate_price_options(coverage_percentage) ==
    PriceResult(TierOf(coverage_percentage))


\* ================================================== perform_technical_analysis
\* An image is a numpy array of shape (h, w, c) of uint8: data holds its h*w
\* pixels in row order, each a sequence of c channel values.

\* cv2.split followed by the unpacking b, g, r = ...: needs exactly 3 channels.
SplitOk(img) == img.c = 3
Blue(p)  == p[1]
Green(p) == p[2]
Red(p)   == p[3]

\* Variant of Sub8 that saturates at 0 (as cv2.subtract does).
Sub8Saturating(x, y) == IF x > y THEN x - y ELSE 0

\* g - r on numpy uint8 arrays wraps around modulo 2^8.
Sub8(x, y) == (x - y) % 256

\* np.count_nonzero(g - r)
CountNonzeroGR(img) ==
    Cardinality({i \in 1..Len(img.data) :
                    Sub8(Green(img.data[i]), Red(img.data[i])) # 0})

\* Line 72.
DocType(img) == IF CountNonzeroGR(img) > 0 THEN "Color" ELSE "B&W"

\* cv2.cvtColor(..., COLOR_BGR2GRAY) on one pixel: Y = 0.299 R + 0.587 G +
\* 0.114 B, rounded to the nearest integer.
Luminance(p) == (299 * Red(p) + 587 * Green(p) + 114 * Blue(p) + 500) \div 1000

\* Variant of ThresholdInv that also clears a pixel equal to the threshold.
ThresholdInvStrict(y) == IF y >= THRESH THEN 0 ELSE MAXVAL

\* cv2.threshold(gray, 240, 255, THRESH_BINARY_INV) on one pixel:
\* 0 where gray > thresh, maxval elsewhere.
ThresholdInv(y) == IF y > THRESH THEN 0 ELSE MAXVAL

\* cv2.countNonZero(thresholded_image)
ContentPixels(img) ==
    Cardinality({i \in 1..Len(img.data) :
                    ThresholdInv(Luminance(img.data[i])) # 0})

\* thresholded_image.shape[0] * thresholded_image.shape[1]
TotalPixels(img) == img.h * img.w

\* Variant of CoverageOf that counts the pixels that are not content.
CoverageOfInverted(img) ==
    [num |-> 100 * (TotalPixels(img) - ContentPixels(img)), den |-> TotalPixels(img)]

\* (content_pixels / total_pixels) * 100, as the rational 100*content/total.
CoverageOf(img) ==
    [num |-> 100 * ContentPixels(img), den |-> TotalPixels(img)]

\* Whether a statement of the try block raises: the unpacking of cv2.split
\* (channel count other than 3), an empty image (cv2.cvtColor rejects it, and
\* total_pixels would be 0), or the library itself (lib_raises: cv2.error or
\* MemoryError on any of the calls).
AnalysisRaises(img, lib_raises) ==
    lib_raises \/ ~SplitOk(img) \/ TotalPixels(img) = 0

\* The whole function: the try block and its except clause.
perform_technical_analysis(img, lib_raises) ==
    IF AnalysisRaises(img, lib_raises)
    THEN [success |-> FALSE]
    ELSE [success            |-> TRUE,
          original_doc_type  |-> DocType(img),
          coverage_percentage |-> CoverageOf(img)]

\* ============================================================ process_document
\* A pixmap (fitz.Pixmap) has a height h, a width w, n bytes per pixel and the
\* flat byte buffer samples.

\* np.frombuffer(pix.samples, dtype=np.uint8).reshape(pix.h, pix.w, pix.n)
\* raises ValueError unless the buffer holds exactly h*w*n bytes.
ReshapeRaises(p) == Len(p.samples) # p.h * p.w * p.n

Reshape(p) ==
    [ h |-> p.h, w |-> p.w, c |-> p.n,
      data |-> [i \in 1..(p.h * p.w) |->
                  [k \in 1..p.n |-> p.samples[(i - 1) * p.n + k]]] ]

\* cv2.cvtColor with COLOR_RGBA2BGR or COLOR_RGB2BGR: the source must have 3 or
\* 4 channels and must not be empty, else cv2.error is raised.
CvtColorRaises(img) == img.c \notin {3, 4} \/ TotalPixels(img) = 0

\* Both codes give a 3-channel image with the first three channels reversed;
\* a fourth (alpha) channel is dropped.
CvtToBGR(img) ==
    [ h |-> img.h, w |-> img.w, c |-> 3,
      data |-> [i \in 1..Len(img.data) |->
                  <<img.data[i][3], img.data[i][2], img.data[i][1]>>] ]

\* Lines 138-145 raise (outside any try block).
RenderRaises(p) == ReshapeRaises(p) \/ CvtColorRaises(Reshape(p))

\* ---------------------------------------------------------------- the inputs
\* RGB colours of page pixels: white, black, the greys around the threshold,
\* and colours that differ in one channel pair only.
White      == <<255, 255, 255>>
Black      == <<0, 0, 0>>
Grey239    == <<239, 239, 239>>
Grey240    == <<240, 240, 240>>
Grey241    == <<241, 241, 241>>
PureRed    == <<255, 0, 0>>
PureGreen  == <<0, 255, 0>>
PureBlue   == <<0, 0, 255>>
PaleYellow == <<255, 255, 200>>

Palette == {White, Black, Grey239, Grey240, Grey241,
            PureRed, PureGreen, PureBlue, PaleYellow}

PagePalette == {White, Black, PureRed}

RECURSIVE Flatten(_)
Flatten(pxs) == IF pxs = <<>> THEN <<>> ELSE Head(pxs) \o Flatten(Tail(pxs))

PixelRows(pal) == UNION {[1..n -> pal] : n \in 1..MaxPixels}

\* Images handed straight to perform_technical_analysis: BGR images of one row,
\* plus a 4-channel image, a 1-channel image and an empty one.
BGRImage(row) ==
    [ h |-> 1, w |-> Len(row), c |-> 3,
      data |-> [i \in 1..Len(row) |-> <<row[i][3], row[i][2], row[i][1]>>] ]

AnalysisImages ==
    {BGRImage(row) : row \in PixelRows(Palette)}
    \cup { [h |-> 1, w |-> 1, c |-> 4, data |-> << <<0, 0, 0, 255>> >>],
           [h |-> 1, w |-> 1, c |-> 1, data |-> << <<0>> >>],
           [h |-> 0, w |-> 0, c |-> 3, data |-> <<>>] }

\* Pixmaps a page may render to: RGB (n = 3), RGBA (n = 4), grey (n = 1), and
\* buffers one byte short of h*w*n.
WithAlpha(row, a) == [i \in 1..Len(row) |-> row[i] \o <<a>>]
GreyOnly(row)     == [i \in 1..Len(row) |-> <<row[i][1]>>]

Pixmap(h, w, n, samples) == [h |-> h, w |-> w, n |-> n, samples |-> samples]

Pixmaps ==
    LET rows == PixelRows(PagePalette) IN
    {Pixmap(1, Len(row), 3, Flatten(row)) : row \in rows}
    \cup {Pixmap(1, Len(row), 4, Flatten(WithAlpha(row, a))) :
             row \in rows, a \in {0, 255}}
    \cup {Pixmap(1, Len(row), 1, Flatten(GreyOnly(row))) :
             row \in {r \in rows : Len(r) = 1}}
    \cup {Pixmap(1, Len(row), 3, Tail(Flatten(row))) :
             row \in {r \in rows : Len(r) = 1}}

\* Coverage values handed straight to calculate_price_options: every multiple
\* of 1/den percent from below 0 to above 100, and the values next to the tier
\* boundaries.
CovInputs ==
    {c \in [num : (-CovSlack)..(100 * MaxDen + CovSlack), den : 1..MaxDen] :
        c.num <= 100 * c.den + CovSlack}
    \cup {[num |-> n, den |-> 10000] :
             n \in {-1, 1, 249999, 250001, 499999, 500001, 749999, 750001,
                    999999, 1000001}}

\* ------------------------------------------------------------------- actions
Printed(line) == output' = Append(output, line)

\* Lines 102-108: the banner and the existence check.
Start ==
    /\ pc = "start"
    /\ \E exists \in BOOLEAN :
          IF ~exists
          THEN /\ Printed([kind |-> "error_not_found"])
               /\ pc' = "aborted"
          ELSE /\ pc' = "convert"
               /\ UNCHANGED output
    /\ UNCHANGED <<coverage, pricing, price_calls, pix, open_cv_image,
                   tech_results, total_pages, page_num, grand_total_bw,
                   grand_total_color, ret>>

\* Variant of Convert whose except clause lacks the return.
ConvertContinues ==
    /\ pc = "convert"
    /\ \E convert_raises \in BOOLEAN :
          IF convert_raises
          THEN /\ Printed([kind |-> "convert_failed"])
               /\ pc' = "open"
          ELSE /\ pc' = "open"
               /\ UNCHANGED output
    /\ UNCHANGED <<coverage, pricing, price_calls, pix, open_cv_image,
                   tech_results, total_pages, page_num, grand_total_bw,
                   grand_total_color, ret>>

\* Lines 111-118: the conversion and its except clause.
Convert ==
    /\ pc = "convert"
    /\ \E convert_raises \in BOOLEAN :
          IF convert_raises
          THEN /\ Printed([kind |-> "convert_failed"])
               /\ pc' = "aborted"
          ELSE /\ pc' = "open"
               /\ UNCHANGED output
    /\ UNCHANGED <<coverage, pricing, price_calls, pix, open_cv_image,
                   tech_results, total_pages, page_num, grand_total_bw,
                   grand_total_color, ret>>

\* Lines 121-128: the page count and the zeroed totals.
OpenPdf ==
    /\ pc = "open"
    /\ \E n \in 0..MaxPages : total_pages' = n
    /\ grand_total_bw' = 0
    /\ grand_total_color' = 0
    /\ page_num' = 0
    /\ pc' = "loop"
    /\ UNCHANGED <<coverage, pricing, price_calls, pix, open_cv_image,
                   tech_results, output, ret>>

\* Lines 131-145: the next page is rendered and converted to BGR; an exception
\* here is caught nowhere and leaves process_document.
RenderPage ==
    /\ pc = "loop"
    /\ page_num < total_pages
    /\ \E p \in Pixmaps :
          /\ pix' = p
          /\ IF RenderRaises(p)
             THEN /\ pc' = "raised"
                  /\ UNCHANGED open_cv_image
             ELSE /\ pc' = "analyse"
                  /\ open_cv_image' = CvtToBGR(Reshape(p))
    /\ UNCHANGED <<coverage, pricing, price_calls, tech_results, total_pages,
                   page_num, grand_total_bw, grand_total_color, output, ret>>

\* Lines 148-184: the analysis, the skip of a failed page, else the pricing,
\* the totals and the page's report.
AnalysePage ==
    /\ pc = "analyse"
    /\ \E lib_raises \in BOOLEAN :
          LET res == perform_technical_analysis(open_cv_image, lib_raises) IN
          /\ tech_results' = res
          /\ IF ~res.success
             THEN /\ output' = output \o <<[kind |-> "analysis_error"],
                                           [kind |-> "page_failed",
                                            page |-> page_num + 1]>>
                  /\ UNCHANGED <<coverage, pricing, price_calls,
                                 grand_total_bw, grand_total_color>>
             ELSE LET cov   == res.coverage_percentage
                      price == calculate_price_options(cov)
                  IN /\ coverage' = cov
                     /\ pricing' = price
                     /\ price_calls' = Append(price_calls,
                                         [page |-> page_num + 1,
                                          arg |-> cov, result |-> price])
                     /\ grand_total_bw' = grand_total_bw + price.final_bw_price
                     /\ grand_total_color' =
                            grand_total_color + price.final_color_price
                     /\ Printed([kind |-> "page", page |-> page_num + 1,
                                 doc_type |-> res.original_doc_type,
                                 coverage |-> cov,
                                 tier_name |-> price.tier_name,
                                 final_bw |-> price.final_bw_price,
                                 final_col |-> price.final_color_price])
    /\ page_num' = page_num + 1
    /\ pc' = "loop"
    /\ UNCHANGED <<pix, open_cv_image, total_pages, ret>>

\* Lines 186-198: the grand totals are printed; the function returns nothing.
Finish ==
    /\ pc = "loop"
    /\ page_num = total_pages
    /\ Printed([kind |-> "grand_total",
                pages_processed |-> total_pages,
                total_bw |-> grand_total_bw,
                total_color |-> grand_total_color])
    /\ pc' = "done"
    /\ ret' = None
    /\ UNCHANGED <<coverage, pricing, price_calls, pix, open_cv_image,
                   tech_results, total_pages, page_num, grand_total_bw,
                   grand_total_color>>

Init ==
    /\ pc = "start"
    /\ coverage = None
    /\ pricing = None
    /\ price_calls = <<>>
    /\ pix = None
    /\ open_cv_image = None
    /\ tech_results = None
    /\ total_pages = None
    /\ page_num = None
    /\ grand_total_bw = None
    /\ grand_total_color = None
    /\ output = <<>>
    /\ ret = None

Next == Start \/ Convert \/ OpenPdf \/ RenderPage \/ AnalysePage \/ Finish

Spec == Init /\ [][Next]_vars

\* ------------------------------------------ calculate_price_options on its own
InitPrice ==
    /\ pc = "price"
    /\ coverage \in CovInputs
    /\ pricing = None
    /\ price_calls = <<>>
    /\ pix = None
    /\ open_cv_image = None
    /\ tech_results = None
    /\ total_pages = None
    /\ page_num = None
    /\ grand_total_bw = None
    /\ grand_total_color = None
    /\ output = <<>>
    /\ ret = None

\* One call of the function on the chosen value; it may be called twice.
CallPrice ==
    /\ pc = "price"
    /\ Len(price_calls) < 2
    /\ pricing' = calculate_price_options(coverage)
    /\ price_calls' = Append(price_calls,
                             [page |-> 0, arg |-> coverage,
                              result |-> pricing'])
    /\ UNCHANGED <<pc, coverage, pix, open_cv_image, tech_results, total_pages,
                   page_num, grand_total_bw, grand_total_color, output, ret>>

NextPrice == CallPrice

SpecPrice == InitPrice /\ [][NextPrice]_vars

\* --------------------------------------- perform_technical_analysis on its own
InitAnalysis ==
    /\ pc = "analysis"
    /\ coverage = None
    /\ pricing = None
    /\ price_calls = <<>>
    /\ pix = None
    /\ open_cv_image \in AnalysisImages
    /\ tech_results = None
    /\ total_pages = None
    /\ page_num = None
    /\ grand_total_bw = None
    /\ grand_total_color = None
    /\ output = <<>>
    /\ ret = None

\* One call of the function on the chosen image.
CallAnalysis ==
    /\ pc = "analysis"
    /\ tech_results = None
    /\ \E lib_raises \in BOOLEAN :
          tech_results' = perform_technical_analysis(open_cv_image, lib_raises)
    /\ UNCHANGED <<pc, coverage, pricing, price_calls, pix, open_cv_image,
                   total_pages, page_num, grand_total_bw, grand_total_color,
                   output, ret>>

NextAnalysis == CallAnalysis

SpecAnalysis == InitAnalysis /\ [][NextAnalysis]_vars

\* ====================================================================== claims

\* The row of the tier table a result must equal (whole units).
IsRow(r, bw_ink, color_ink, final_bw, final_color) ==
    /\ r.paper_price = 1
    /\ r.bw_ink_price = bw_ink
    /\ r.color_ink_price = color_ink
    /\ r.final_bw_price = final_bw
    /\ r.final_color_price = final_color

Calls == {price_calls[i] : i \in 1..Len(price_calls)}

\* C1: every coverage value c >= 0 gets exactly one tier, boundaries belonging
\* to the lower tier: [0,25] Tier 1 (1,2,2,3), (25,50] Tier 2 (2,4,3,5),
\* (50,75] Tier 3 (3,6,4,7), above 75 Tier 4 (4,9,5,10); paper price is 1.
C1_TierPartition ==
    \A call \in Calls :
        LET c == call.arg
            r == call.result
        IN  c.num >= 0 =>
              /\ (c.num <= 25 * c.den)
                    => IsRow(r, 1, 2, 2, 3) /\ r.tier_name = "Tier 1: Light (0-25%)"
              /\ (25 * c.den < c.num /\ c.num <= 50 * c.den)
                    => IsRow(r, 2, 4, 3, 5) /\ r.tier_name = "Tier 2: Medium (26-50%)"
              /\ (50 * c.den < c.num /\ c.num <= 75 * c.den)
                    => IsRow(r, 3, 6, 4, 7) /\ r.tier_name = "Tier 3: Heavy (51-75%)"
              /\ (75 * c.den < c.num)
                    => IsRow(r, 4, 9, 5, 10)
                       /\ r.tier_name = "Tier 4: Dense/Full (76-100%)"
              /\ Cardinality({row \in {<<1, 2, 2, 3>>, <<2, 4, 3, 5>>,
                                       <<3, 6, 4, 7>>, <<4, 9, 5, 10>>} :
                                IsRow(r, row[1], row[2], row[3], row[4])}) = 1

\* The function was called on exactly 25 and answered Tier 1, final B&W 2.
C1_Witness ==
    \E call \in Calls :
        /\ call.arg.num = 25 * call.arg.den
        /\ call.result.final_bw_price = 2
        /\ call.result.final_color_price = 3

C10_AllPricesZero ==
    \A call \in Calls :
        call.arg.num < 0 =>
            /\ call.result.tier_name = "N/A"
            /\ call.result.bw_ink_price = 0
            /\ call.result.color_ink_price = 0
            /\ call.result.final_bw_price = 0
            /\ call.result.final_color_price = 0

\* C10 amended: a coverage value below 0 gives tier "N/A" and zero ink prices,
\* and both final prices equal the paper price, 1; a result is returned.
C10_InkZeroFinalsPaper ==
    \A call \in Calls :
        call.arg.num < 0 =>
            /\ call.result.tier_name = "N/A"
            /\ call.result.bw_ink_price = 0
            /\ call.result.color_ink_price = 0
            /\ call.result.paper_price = 1
            /\ call.result.final_bw_price = 1
            /\ call.result.final_color_price = 1

\* The function was called on a negative value and returned.
C10_Witness ==
    \E call \in Calls : call.arg.num < 0 /\ call.result.tier_name = "N/A"

\* ---- perform_technical_analysis
Analysed == pc = "analysis" /\ tech_results # None
Pixels(img) == {img.data[i] : i \in 1..Len(img.data)}
PixelsBelow(img, y) ==
    Cardinality({i \in 1..Len(img.data) : Luminance(img.data[i]) < y})

\* C3 as stated: a pixel is ink iff its luminance is strictly below 240, and
\* coverage_percentage = ink pixels / total pixels * 100.
C3_InkStrictlyBelow240 ==
    (Analysed /\ tech_results.success) =>
        tech_results.coverage_percentage.num * TotalPixels(open_cv_image)
            = 100 * PixelsBelow(open_cv_image, 240)
                  * tech_results.coverage_percentage.den

\* C3 amended: a pixel is ink iff its luminance is at most 240 (a pixel of
\* luminance exactly 240 is ink), and coverage_percentage = ink pixels /
\* total pixels * 100.
C3_InkAtMost240 ==
    (Analysed /\ tech_results.success) =>
        tech_results.coverage_percentage.num * TotalPixels(open_cv_image)
            = 100 * PixelsBelow(open_cv_image, 241)
                  * tech_results.coverage_percentage.den

\* An image holding a pixel of luminance 240 and a brighter one was analysed:
\* the first is ink, the second is not.
C3_Witness ==
    /\ Analysed
    /\ tech_results.success
    /\ \E p \in Pixels(open_cv_image) : Luminance(p) = 240
    /\ \E p \in Pixels(open_cv_image) : Luminance(p) = 241
    /\ tech_results.coverage_percentage.num * 2
          = 100 * tech_results.coverage_percentage.den

\* C4: a page is B&W iff every pixel has red = green; one pixel with
\* red # green, whichever is larger, makes it Color.
C4_BwIffRedEqualsGreen ==
    (Analysed /\ tech_results.success) =>
        (tech_results.original_doc_type = "B&W"
            <=> \A p \in Pixels(open_cv_image) : Red(p) = Green(p))

\* An image with a pixel whose red exceeds its green (g - r wraps around) and
\* a grey pixel was analysed as Color.
C4_Witness ==
    /\ Analysed
    /\ tech_results.success
    /\ \E p \in Pixels(open_cv_image) : Red(p) > Green(p)
    /\ \E p \in Pixels(open_cv_image) : Red(p) = Green(p)
    /\ tech_results.original_doc_type = "Color"

\* C9 as stated: every page classified B&W has red = green = blue at every
\* pixel.
C9_BwHasEqualChannels ==
    (Analysed /\ tech_results.success
       /\ tech_results.original_doc_type = "B&W") =>
        \A p \in Pixels(open_cv_image) : Red(p) = Green(p) /\ Green(p) = Blue(p)

\* ---- process_document
Lines(kind) == {i \in 1..Len(output) : output[i].kind = kind}

RECURSIVE SumSeq(_)
SumSeq(s) == IF s = <<>> THEN 0 ELSE Head(s) + SumSeq(Tail(s))

\* C2 as stated: at the end of a run the reported B&W and colour totals are
\* the sums of final_bw_price and final_color_price over the successfully
\* analysed pages, and the reported number of pages processed is the number
\* of successfully analysed pages.
C2_TotalsAndCountOverAnalysedPages ==
    pc = "done" =>
        LET report == output[Len(output)]
            final_bw == [i \in DOMAIN price_calls |->
                            price_calls[i].result.final_bw_price]
            final_color == [i \in DOMAIN price_calls |->
                               price_calls[i].result.final_color_price]
        IN  /\ report.kind = "grand_total"
            /\ report.total_bw = SumSeq(final_bw)
            /\ report.total_color = SumSeq(final_color)
            /\ report.pages_processed = Cardinality(Lines("page"))

C6_NoUncaughtPageError == pc # "raised"

\* C8: every call of calculate_price_options gets the coverage of the
\* successful analysis of the current page, a value in [0,100]; no call is
\* made for a failed page; an all-white page has coverage 0 and an all-black
\* page coverage 100.
C8_PricingOnlyOnAnalysedCoverage ==
    /\ \A call \in Calls :
          /\ 0 <= call.arg.num
          /\ call.arg.num <= 100 * call.arg.den
          /\ \A i \in Lines("page_failed") : output[i].page # call.page
    /\ Len(price_calls) = Cardinality(Lines("page"))
    /\ (pc = "loop" /\ page_num > 0) =>
          IF tech_results.success
          THEN /\ price_calls # <<>>
               /\ price_calls[Len(price_calls)].page = page_num
               /\ price_calls[Len(price_calls)].arg
                     = tech_results.coverage_percentage
               /\ Pixels(open_cv_image) = {White}
                     => tech_results.coverage_percentage.num = 0
               /\ Pixels(open_cv_image) = {Black}
                     => tech_results.coverage_percentage.num
                           = 100 * tech_results.coverage_percentage.den
          ELSE \A call \in Calls : call.page # page_num

\* A run ended in which one page failed analysis and an all-white page was
\* priced on coverage 0.
C8_Witness ==
    /\ pc = "done"
    /\ Lines("page_failed") # {}
    /\ Pixels(open_cv_image) = {White}
    /\ tech_results.success
    /\ \E call \in Calls : call.arg.num = 0

=============================================================================
